---- MODULE Spec2Model ----
(***************************************************************************)
(* Connect Four (src/connect4.js): the Game object's board, turn and       *)
(* playing flag, the start button's click listeners and the end-of-game    *)
(* timeout, with one action per event handler.                             *)
(*                                                                         *)
(* A cell holds 0 (null or undefined: both falsy, both different from a    *)
(* player), 1 or 2.  Each row is a JavaScript array: besides its indices   *)
(* 0..WIDTH-1 the model keeps the index WIDTH (a write there lengthens the *)
(* row) and the key -1 (a property that is no array index: fill() and      *)
(* every() never visit it).                                                *)
(***************************************************************************)
EXTENDS Integers, Sequences, FiniteSets, TLC

\* Largest board the specifications construct: at most MaxWidth columns,
\* MaxHeight rows and MaxArea cells.
MaxWidth == 4
MaxHeight == 4
MaxArea == 12
\* Largest board of the specification that clicks any column index.
MaxAnyWidth == 2
MaxAnyHeight == 2
\* Most cells the board-drawing specification fills.
MaxCells == 4

\* On the default board the columns 0 .. MaxScenarioCol are clicked, until
\* MaxDrops pieces are on the board.
MaxScenarioCol == 1
MaxDrops == 8

\* new Game(6, 7): the constructor's parameters are (width, height).
DefaultWidth == 6
DefaultHeight == 7

\* findSpotForCol's "no spot" result, null.
Null == -1

\* WIDTH, HEIGHT, board, currPlayer, isPlaying: the Game object's fields.
\* rowLen[y]: the length of the array board[y].
\* listeners: click listeners registered on the start button;
\* handleStartLive: this.handleStart is one of them (removeEventListener
\* removes only that one).
\* timers: timeouts set by endGame that have not fired.
\* msg: the outcome endGame was called with, kept until the next start
\* clears the board it belongs to ("" while there is none).
\* lastEvent: what the last handler to run did (history only).
VARIABLES WIDTH, HEIGHT, board, rowLen, currPlayer, isPlaying,
          listeners, handleStartLive, timers, msg, lastEvent

vars == <<WIDTH, HEIGHT, board, rowLen, currPlayer, isPlaying,
          listeners, handleStartLive, timers, msg, lastEvent>>

game == <<board, rowLen, currPlayer, isPlaying, msg>>

Rows == 0 .. (HEIGHT - 1)
Cols == 0 .. (WIDTH - 1)
\* Every key a row is read or written at: -1, the indices, and WIDTH.
Keys == (-1) .. WIDTH
\* Column indices a caller can pass: the header cells' ids and the two
\* nearest indices outside [0, WIDTH).
AnyCols == (-1) .. WIDTH

\* The messages endGame is called with.
WonMsg(p) == IF p = 1 THEN "Player 1 won!" ELSE "Player 2 won!"
TieMsg == "Tie!"
NoMsg == ""

(***************************************************************************)
(* Pure parts of the Game class.                                           *)
(***************************************************************************)

\* makeBoard: HEIGHT rows of WIDTH nulls.
makeBoard(w, h) == [y \in 0 .. (h - 1) |-> [x \in (-1) .. w |-> 0]]

RECURSIVE scanUp(_, _, _)
scanUp(b, x, y) ==
    IF y >= 0
    THEN IF b[y][x] = 0 THEN y ELSE scanUp(b, x, y - 1)
    ELSE Null

\* Variant: a full column yields row 0 instead of null.
findSpotForCol_top(b, h, x) ==
    LET y == scanUp(b, x, h - 1) IN IF y = Null THEN 0 ELSE y

RECURSIVE scanDown(_, _, _, _)
scanDown(b, h, x, y) ==
    IF y < h
    THEN IF b[y][x] = 0 THEN y ELSE scanDown(b, h, x, y + 1)
    ELSE Null

\* Variant: the scan runs from the top row down.
findSpotForCol_first(b, h, x) == scanDown(b, h, x, 0)

\* findSpotForCol: from the bottom row upward, the first row whose cell in
\* column x is falsy; null if there is none.
findSpotForCol(b, h, x) == scanUp(b, x, h - 1)

\* _win: all four coordinates are legal and hold player p.
win(b, w, h, p, cells) ==
    \A i \in 1 .. 4 :
        LET y == cells[i][1]
            x == cells[i][2]
        IN  /\ y >= 0
            /\ y < h
            /\ x >= 0
            /\ x < w
            /\ b[y][x] = p

horiz(y, x) == <<<<y, x>>, <<y, x + 1>>, <<y, x + 2>>, <<y, x + 3>>>>
vert(y, x) == <<<<y, x>>, <<y + 1, x>>, <<y + 2, x>>, <<y + 3, x>>>>
diagDR(y, x) == <<<<y, x>>, <<y + 1, x + 1>>, <<y + 2, x + 2>>, <<y + 3, x + 3>>>>
diagDL(y, x) == <<<<y, x>>, <<y + 1, x - 1>>, <<y + 2, x - 2>>, <<y + 3, x - 3>>>>

\* Variant: the down-left diagonal is not probed.
checkForWin_noDL(b, w, h, p) ==
    \E y \in 0 .. (h - 1) : \E x \in 0 .. (w - 1) :
        \/ win(b, w, h, p, horiz(y, x))
        \/ win(b, w, h, p, vert(y, x))
        \/ win(b, w, h, p, diagDR(y, x))

\* Variant: the vertical run is not probed.
checkForWin_noVert(b, w, h, p) ==
    \E y \in 0 .. (h - 1) : \E x \in 0 .. (w - 1) :
        \/ win(b, w, h, p, horiz(y, x))
        \/ win(b, w, h, p, diagDR(y, x))
        \/ win(b, w, h, p, diagDL(y, x))

\* checkForWin: does a run of four of player p start at some cell?
checkForWin(b, w, h, p) ==
    \E y \in 0 .. (h - 1) : \E x \in 0 .. (w - 1) :
        \/ win(b, w, h, p, horiz(y, x))
        \/ win(b, w, h, p, vert(y, x))
        \/ win(b, w, h, p, diagDR(y, x))
        \/ win(b, w, h, p, diagDL(y, x))

\* Variant: some() in place of the outer every().
boardFull_some(b, len) ==
    \E y \in DOMAIN b : \A x \in 0 .. (len[y] - 1) : b[y][x] # 0

\* Variant: the inner loop runs one index past the row's end.
boardFull_wide(b, len) ==
    \A y \in DOMAIN b : \A x \in 0 .. len[y] : b[y][x] # 0

\* The tie test, board.every(row => row.every(cell => cell)): every index
\* below each row's length holds a truthy cell.
boardFull(b, len) ==
    \A y \in DOMAIN b : \A x \in 0 .. (len[y] - 1) : b[y][x] # 0

\* emptyBoard: row.fill(null) on every row, over the row's length.
emptyBoard(b, len) ==
    [y \in DOMAIN b |->
        [x \in DOMAIN b[y] |-> IF x >= 0 /\ x < len[y] THEN 0 ELSE b[y][x]]]

\* board[y][x] = v; writing at the index equal to the length lengthens the row.
setCell(b, y, x, v) == [b EXCEPT ![y][x] = v]
setLen(len, y, x) == [len EXCEPT ![y] = IF x >= @ THEN x + 1 ELSE @]

(***************************************************************************)
(* Construction: new Game(width, height).                                  *)
(***************************************************************************)
Construct(w, h) ==
    /\ WIDTH = w
    /\ HEIGHT = h
    /\ board = makeBoard(w, h)
    /\ rowLen = [y \in 0 .. (h - 1) |-> w]
    /\ currPlayer = 1
    /\ isPlaying = FALSE
    \* createStartButton -> activateStartButton
    /\ listeners = 1
    /\ handleStartLive = TRUE
    /\ timers = 0
    /\ msg = NoMsg
    /\ lastEvent = "constructed"

Init ==
    \E w \in 1 .. MaxWidth : \E h \in 1 .. MaxHeight :
        w * h <= MaxArea /\ Construct(w, h)

\* Every board of at most MaxWidth columns and MaxHeight rows.
InitBoards == \E w \in 1 .. MaxWidth : \E h \in 1 .. MaxHeight : Construct(w, h)

InitAny == \E w \in 1 .. MaxAnyWidth : \E h \in 1 .. MaxAnyHeight : Construct(w, h)

(***************************************************************************)
(* Event handlers.                                                         *)
(***************************************************************************)

\* Variant: the listener is not removed.
HandleStartClick_keepListener ==
    /\ listeners > 0
    /\ isPlaying' = TRUE
    /\ board' = emptyBoard(board, rowLen)
    /\ msg' = NoMsg
    /\ lastEvent' = "start"
    /\ UNCHANGED <<WIDTH, HEIGHT, rowLen, currPlayer, timers,
                   listeners, handleStartLive>>

\* A click on the start button with a listener registered: handleStartClick.
HandleStartClick ==
    /\ listeners > 0
    /\ isPlaying' = TRUE
    \* removeEventListener('click', this.handleStart)
    /\ listeners' = IF handleStartLive THEN listeners - 1 ELSE listeners
    /\ handleStartLive' = FALSE
    /\ board' = emptyBoard(board, rowLen)
    \* the outcome on display belonged to the board just emptied
    /\ msg' = NoMsg
    /\ lastEvent' = "start"
    /\ UNCHANGED <<WIDTH, HEIGHT, rowLen, currPlayer, timers>>

\* Variant: isPlaying is not cleared.
endGame_stillPlaying(m) ==
    /\ isPlaying' = isPlaying
    /\ timers' = timers + 1
    /\ msg' = m

\* Variant: no timeout is set.
endGame_noTimer(m) ==
    /\ isPlaying' = FALSE
    /\ timers' = timers
    /\ msg' = m

\* endGame(msg): stop play and schedule the announcement.
endGame(m) ==
    /\ isPlaying' = FALSE
    /\ timers' = timers + 1
    /\ msg' = m

\* Variant: the players are never switched.
afterPlace_noToggle(b, len) ==
    IF checkForWin(b, WIDTH, HEIGHT, currPlayer)
    THEN endGame(WonMsg(currPlayer)) /\ UNCHANGED currPlayer
    ELSE IF boardFull(b, len)
         THEN endGame(TieMsg) /\ UNCHANGED currPlayer
         ELSE /\ currPlayer' = currPlayer
              /\ UNCHANGED <<isPlaying, timers, msg>>

\* Variant: the players are switched on a win too.
afterPlace_toggleFirst(b, len) ==
    IF checkForWin(b, WIDTH, HEIGHT, currPlayer)
    THEN endGame(WonMsg(currPlayer)) /\ currPlayer' = 3 - currPlayer
    ELSE IF boardFull(b, len)
         THEN endGame(TieMsg) /\ UNCHANGED currPlayer
         ELSE /\ currPlayer' = (IF currPlayer = 1 THEN 2 ELSE 1)
              /\ UNCHANGED <<isPlaying, timers, msg>>

\* Variant: the tie is tested before the win.
afterPlace_tieFirst(b, len) ==
    IF boardFull(b, len)
    THEN endGame(TieMsg) /\ UNCHANGED currPlayer
    ELSE IF checkForWin(b, WIDTH, HEIGHT, currPlayer)
         THEN endGame(WonMsg(currPlayer)) /\ UNCHANGED currPlayer
         ELSE /\ currPlayer' = (IF currPlayer = 1 THEN 2 ELSE 1)
              /\ UNCHANGED <<isPlaying, timers, msg>>

\* handleClick after the piece is on the board b: win, then tie, then
\* switch players.
afterPlace(b, len) ==
    IF checkForWin(b, WIDTH, HEIGHT, currPlayer)
    THEN endGame(WonMsg(currPlayer)) /\ UNCHANGED currPlayer
    ELSE IF boardFull(b, len)
         THEN endGame(TieMsg) /\ UNCHANGED currPlayer
         ELSE /\ currPlayer' = (IF currPlayer = 1 THEN 2 ELSE 1)
              /\ UNCHANGED <<isPlaying, timers, msg>>

\* Variant: the playing flag is not consulted.
playing_always == TRUE

\* handleClick's first test: is a game in session?
playing == isPlaying

\* A click on the column top with id x: handleClick.
HandleClick(x) ==
    /\ UNCHANGED <<WIDTH, HEIGHT, listeners, handleStartLive>>
    /\ IF ~playing
       THEN /\ lastEvent' = "notPlaying"
            /\ UNCHANGED <<board, rowLen, currPlayer, isPlaying, timers, msg>>
       ELSE LET y == findSpotForCol(board, HEIGHT, x) IN
            IF y = Null
            THEN /\ lastEvent' = "columnFull"
                 /\ UNCHANGED <<board, rowLen, currPlayer, isPlaying, timers, msg>>
            ELSE /\ board' = setCell(board, y, x, currPlayer)
                 /\ rowLen' = setLen(rowLen, y, x)
                 /\ IF x \in Cols
                    THEN /\ lastEvent' = "placed"
                         /\ afterPlace(board', rowLen')
                    \* placeInTable finds no element with id y-x and throws:
                    \* the handler ends here.
                    ELSE /\ lastEvent' = "threw"
                         /\ UNCHANGED <<currPlayer, isPlaying, timers, msg>>

\* The timeout set by endGame fires: alert(msg), then activateStartButton.
TimeoutFires ==
    /\ timers > 0
    /\ timers' = timers - 1
    /\ listeners' = listeners + 1
    /\ handleStartLive' = TRUE
    /\ lastEvent' = "alerted"
    /\ UNCHANGED <<WIDTH, HEIGHT, board, rowLen, currPlayer, isPlaying, msg>>

ClickColumn == \E x \in Cols : HandleClick(x)

ClickAnyColumn == \E x \in AnyCols : HandleClick(x)

Next ==
    \/ HandleStartClick
    \/ ClickColumn
    \/ TimeoutFires

NextAny ==
    \/ HandleStartClick
    \/ ClickAnyColumn
    \/ TimeoutFires

\* Clicks on the header cells of the board.
Spec == Init /\ [][Next]_vars

\* The same, with the browser running every timeout that has been set.
SpecLive == Init /\ [][Next]_vars /\ WF_vars(TimeoutFires)

\* handleClick called with any column index in -1 .. WIDTH.
SpecAny == InitAny /\ [][NextAny]_vars

\* The game on the largest square board alone, where runs in all four
\* directions fit.
InitSquare == Construct(MaxWidth, MaxHeight)

SpecSquare == InitSquare /\ [][Next]_vars

\* The game the script constructs, new Game(6, 7), with clicks on its first
\* columns.
InitDefault == Construct(DefaultWidth, DefaultHeight)

ClickScenarioColumn ==
    /\ Cardinality({c \in Rows \X Cols : board[c[1]][c[2]] # 0}) < MaxDrops
    /\ \E x \in 0 .. MaxScenarioCol : HandleClick(x)

NextDefault ==
    \/ HandleStartClick
    \/ ClickScenarioColumn
    \/ TimeoutFires

SpecDefault == InitDefault /\ [][NextDefault]_vars

(***************************************************************************)
(* checkForWin as a function of an arbitrary board: cells are filled in    *)
(* any order and with either player (gravity is not assumed), and          *)
(* checkForWin is then called for a player.                                *)
(***************************************************************************)
cellCount(b) == Cardinality({c \in Rows \X Cols : b[c[1]][c[2]] # 0})

PutCell ==
    \E y \in Rows : \E x \in Cols : \E p \in {1, 2} :
        /\ board[y][x] = 0
        /\ cellCount(board) < MaxCells
        /\ board' = setCell(board, y, x, p)
        /\ lastEvent' = "put"
        /\ UNCHANGED <<WIDTH, HEIGHT, rowLen, currPlayer, isPlaying,
                       listeners, handleStartLive, timers, msg>>

CallCheckForWin ==
    \E p \in {1, 2} :
        /\ currPlayer' = p
        /\ lastEvent' = IF checkForWin(board, WIDTH, HEIGHT, p)
                        THEN "win" ELSE "noWin"
        /\ UNCHANGED <<WIDTH, HEIGHT, board, rowLen, isPlaying,
                       listeners, handleStartLive, timers, msg>>

NextBoards ==
    \/ PutCell
    \/ CallCheckForWin

SpecBoards == InitBoards /\ [][NextBoards]_vars

(***************************************************************************)
(* Vocabulary of the properties.                                           *)
(***************************************************************************)

\* The phases of a game: a finished game is one whose outcome has been
\* passed to endGame and not yet discarded by a new start.
Won(p) == msg = WonMsg(p)
Tied == msg = TieMsg
Ended == msg # NoMsg

InGrid(y, x) == y \in Rows /\ x \in Cols

\* The eight compass directions, as (dy, dx).
Directions == {d \in {-1, 0, 1} \X {-1, 0, 1} : d # <<0, 0>>}

\* Four cells in a straight line, all inside the grid, all holding p: a
\* cell of p from which three more steps in some direction stay on p.
FourInLine(b, p) ==
    \E y \in Rows : \E x \in Cols :
        /\ b[y][x] = p
        /\ \E d \in Directions :
            \A k \in 1 .. 3 :
                /\ InGrid(y + k * d[1], x + k * d[2])
                /\ b[y + k * d[1]][x + k * d[2]] = p

\* No cell of the grid is empty.
NoEmptyCell(b) == \A y \in Rows : \A x \in Cols : b[y][x] # 0

AllEmpty(b) == \A y \in Rows : \A x \in Cols : b[y][x] = 0

ColumnIsFull(b, x) == \A y \in Rows : b[y][x] # 0

Other(p) == IF p = 1 THEN 2 ELSE 1

\* The step is handleClick(x) placing a piece in a column of the grid.
Accepted(x) == lastEvent' = "placed" /\ HandleClick(x)

TypeOK ==
    /\ WIDTH \in 1 .. (MaxWidth + MaxAnyWidth)
    /\ HEIGHT \in 1 .. (MaxHeight + MaxAnyHeight)
    /\ board \in [Rows -> [Keys -> 0 .. 2]]
    /\ rowLen \in [Rows -> {WIDTH, WIDTH + 1}]
    /\ currPlayer \in {1, 2}
    /\ isPlaying \in BOOLEAN
    /\ listeners \in 0 .. 1
    /\ timers \in 0 .. 1
    /\ msg \in {NoMsg, TieMsg, WonMsg(1), WonMsg(2)}

(***************************************************************************)
(* Properties.                                                             *)
(***************************************************************************)

\* C1: a click on a column while no game is in progress (before the first
\* start, after a win, after a tie) changes nothing: board, row lengths,
\* current player, playing flag and reported outcome are the same after it.
C1_DropWhileNotPlayingChangesNothing ==
    [][\A x \in Cols : (~isPlaying /\ HandleClick(x)) => UNCHANGED game]_vars

\* A click has been ignored after player 1 won.
C1_Witness ==
    /\ lastEvent = "notPlaying"
    /\ ~isPlaying
    /\ Won(1)
    /\ ~AllEmpty(board)

\* C2: handleClick with a column index outside [0, WIDTH) changes nothing:
\* no cell, no row's length, not the current player, not the phase.
C2_OutOfRangeColumnChangesNothing ==
    [][\A x \in AnyCols \ Cols : HandleClick(x) => UNCHANGED game]_vars

\* C3: a click on a column that already holds HEIGHT pieces changes nothing.
C3_FullColumnChangesNothing ==
    [][\A x \in Cols :
        (ColumnIsFull(board, x) /\ HandleClick(x)) => UNCHANGED game]_vars

\* A click on a full column has been ignored during a game.
C3_Witness ==
    /\ lastEvent = "columnFull"
    /\ isPlaying
    /\ \E x \in Cols : ColumnIsFull(board, x)

\* C4: an accepted drop in column x changes exactly the cell (r, x), where r
\* is the largest row index whose cell in column x was empty, and sets it to
\* the player who was current before the drop.
C4_DropLandsOnLowestEmptyRow ==
    [][\A x \in Cols :
        Accepted(x) =>
            \E r \in Rows :
                /\ board[r][x] = 0
                /\ \A y \in Rows : y > r => board[y][x] # 0
                /\ board' = [board EXCEPT ![r][x] = currPlayer]
                /\ rowLen' = rowLen]_vars

\* A piece has landed on top of another one.
C4_Witness ==
    /\ lastEvent = "placed"
    /\ HEIGHT >= 3
    /\ \E x \in Cols :
        /\ board[HEIGHT - 1][x] # 0
        /\ board[HEIGHT - 2][x] # 0
        /\ board[HEIGHT - 3][x] = 0

\* C5: an accepted drop that completes four in a line for the mover ends the
\* game as won by the mover, and the mover stays the current player.
C5_WinningDropEndsGameWithoutToggle ==
    [][\A x \in Cols :
        (Accepted(x) /\ FourInLine(board', currPlayer)) =>
            /\ ~isPlaying'
            /\ Won(currPlayer)'
            /\ currPlayer' = currPlayer]_vars

\* Player 2 has just won.
C5_Witness ==
    /\ lastEvent = "placed"
    /\ ~isPlaying
    /\ Won(2)
    /\ currPlayer = 2
    /\ FourInLine(board, 2)

\* C6: after an accepted drop the win is tested first, then the tie, then the
\* turn changes: with neither a win of the mover nor a full board the other
\* player becomes current and the game stays in progress; a win on the last
\* empty cell is a win, not a tie; a full board without a win is a tie; and
\* the current player changes in no other step.
C6_WinThenTieThenToggle ==
    [][/\ \A x \in Cols :
            Accepted(x) =>
                IF FourInLine(board', currPlayer)
                THEN Won(currPlayer)' /\ currPlayer' = currPlayer
                ELSE IF NoEmptyCell(board')
                     THEN Tied' /\ currPlayer' = currPlayer
                     ELSE /\ currPlayer' = Other(currPlayer)
                          /\ isPlaying'
                          /\ ~Ended'
       /\ currPlayer' # currPlayer =>
            /\ isPlaying
            /\ \E x \in Cols : Accepted(x)
            /\ ~FourInLine(board', currPlayer)
            /\ ~NoEmptyCell(board')]_vars

\* The drop into the last empty cell completed four in a line.
C6_Witness ==
    /\ lastEvent = "placed"
    /\ NoEmptyCell(board)
    /\ Won(currPlayer)
    /\ FourInLine(board, currPlayer)

\* C7: checkForWin returns true exactly when four cells in a straight line
\* (horizontal, vertical or either diagonal), all inside the HEIGHT x WIDTH
\* grid, hold the player's identifier; for every board and all dimensions.
C7_CheckForWinIsFourInLine ==
    lastEvent \in {"win", "noWin"} =>
        (lastEvent = "win" <=> FourInLine(board, currPlayer))

\* checkForWin has found a run that goes down and to the left.
C7_Witness ==
    /\ lastEvent = "win"
    /\ \E y \in Rows : \E x \in Cols :
        win(board, WIDTH, HEIGHT, currPlayer, diagDL(y, x))

\* C8: in every tied state the board has no empty cell and holds no four in
\* a line of either player.
C8_TieOnlyOnFullBoardWithoutRun ==
    Tied =>
        /\ ~isPlaying
        /\ NoEmptyCell(board)
        /\ ~FourInLine(board, 1)
        /\ ~FourInLine(board, 2)

\* A tie on a board wide enough for a horizontal run.
C8_Witness ==
    /\ Tied
    /\ lastEvent = "placed"
    /\ WIDTH = 4
    /\ HEIGHT = 2

\* C9: once the game is won or tied no game is in progress, every click on a
\* column is ignored and the board and turn stay as they are until
\* handleStartClick runs; the game becomes won or tied only by an accepted
\* drop of a game in progress, and play resumes only by handleStartClick.
C9_FinishedGameIsFrozenUntilStart ==
    [][/\ Ended => ~isPlaying
       /\ Ended => (UNCHANGED game \/ HandleStartClick)
       /\ \A x \in Cols : (Ended /\ HandleClick(x)) => UNCHANGED game
       /\ (~Ended /\ Ended') => (isPlaying /\ \E x \in Cols : Accepted(x))
       /\ (~isPlaying /\ isPlaying') => HandleStartClick]_vars

\* A click has been ignored after a tie was announced.
C9_Witness ==
    /\ Tied
    /\ lastEvent = "notPlaying"
    /\ timers = 0
    /\ listeners = 1

\* C10: a game begun after a finished game starts from an all-empty board
\* with player 1 as the current player.
C10_RematchStartsEmptyWithPlayerOne ==
    [][(Ended /\ HandleStartClick) =>
        (AllEmpty(board') /\ currPlayer' = 1)]_vars

\* C11: in every column the occupied cells form a block resting on the
\* bottom row: no occupied cell has an empty cell below it.
C11_NoFloatingPiece ==
    \A x \in Cols : \A y \in Rows :
        (board[y][x] # 0 /\ y + 1 < HEIGHT) => board[y + 1][x] # 0

\* Two columns of different heights during a game, one of them stacked.
C11_Witness ==
    /\ isPlaying
    /\ HEIGHT >= 3
    /\ \E x1 \in Cols : \E x2 \in Cols :
        /\ board[HEIGHT - 2][x1] # 0
        /\ board[HEIGHT - 3][x1] = 0
        /\ board[HEIGHT - 1][x2] # 0
        /\ board[HEIGHT - 2][x2] = 0

\* C12: an occupied cell is emptied or given another owner by no step other
\* than handleStartClick (accepted and ignored clicks, the end of the game
\* and the timeout leave it as it is).
C12_OccupiedCellKeptUntilStart ==
    [][(\E y \in Rows : \E x \in Cols :
            board[y][x] # 0 /\ board'[y][x] # board[y][x])
        => HandleStartClick]_vars

\* The timeout has fired on a finished game and the pieces are still there.
C12_Witness ==
    /\ lastEvent = "alerted"
    /\ Won(2)
    /\ FourInLine(board, 2)

\* C13: the verdict after a drop is a function of the resulting board alone,
\* whatever the order of the moves that built it: the game is won by p
\* exactly when the board holds four of p in a line.
C13_VerdictIsFunctionOfBoard ==
    lastEvent = "placed" =>
        \A p \in {1, 2} : Won(p) <=> FourInLine(board, p)

\* A vertical win of player 1 with player 2's pieces spread over two columns
\* (the same board arises from several move orders).
C13_Witness ==
    /\ lastEvent = "placed"
    /\ Won(1)
    /\ HEIGHT = 4
    /\ \E x \in Cols : \A y \in Rows : board[y][x] = 1
    /\ Cardinality({x \in Cols : board[HEIGHT - 1][x] = 2}) >= 2

\* C14: the constructed game has HEIGHT = 6 and WIDTH = 7, and the first
\* drop after a start, at column 0, is made by player 1, lands at row 5 and
\* makes player 2 the current player.
C14_DefaultBoardFirstDrop ==
    [][(lastEvent = "start" /\ AllEmpty(board) /\ HandleClick(0)) =>
        /\ HEIGHT = 6
        /\ WIDTH = 7
        /\ currPlayer = 1
        /\ board'[5][0] = 1
        /\ \A y \in Rows : y # 5 => board'[y][0] = 0
        /\ currPlayer' = 2]_vars

\* The board after the first k drops of the sequence 0,1,0,1,0,1,0: player 1
\* stacked in column 0, player 2 in column 1.
ScenarioBoard(k) ==
    [y \in Rows |->
        [x \in Keys |->
            IF x = 0 /\ y >= HEIGHT - ((k + 1) \div 2) THEN 1
            ELSE IF x = 1 /\ y >= HEIGHT - (k \div 2) THEN 2
            ELSE 0]]

ScenarioCol(k) == IF k % 2 = 1 THEN 0 ELSE 1
ScenarioPlayer(k) == IF k % 2 = 1 THEN 1 ELSE 2

\* C15: in the first game on the constructed board the drops at columns
\* 0,1,0,1,0,1,0 are each accepted, made by players 1,2,1,2,1,2,1 in turn; the
\* game stays in progress after each of the first six and the seventh ends
\* it as won by player 1 with four player-1 pieces stacked in column 0.
C15_SevenDropScenario ==
    [][/\ (lastEvent = "constructed" /\ HandleStartClick) =>
            /\ isPlaying'
            /\ currPlayer' = ScenarioPlayer(1)
            /\ board' = ScenarioBoard(0)
       /\ \A k \in 1 .. 7 :
            (/\ isPlaying
             /\ currPlayer = ScenarioPlayer(k)
             /\ board = ScenarioBoard(k - 1)
             /\ HandleClick(ScenarioCol(k))) =>
                /\ lastEvent' = "placed"
                /\ board' = ScenarioBoard(k)
                /\ IF k < 7
                   THEN /\ isPlaying'
                        /\ ~Ended'
                        /\ currPlayer' = ScenarioPlayer(k + 1)
                   ELSE /\ ~isPlaying'
                        /\ Won(1)'
                        /\ currPlayer' = 1
                        /\ \A y \in (HEIGHT - 4) .. (HEIGHT - 1) :
                            board'[y][0] = 1]_vars

\* The seventh drop of the scenario has been made.
C15_Witness ==
    /\ lastEvent = "placed"
    /\ WIDTH = DefaultWidth
    /\ HEIGHT = DefaultHeight
    /\ board = ScenarioBoard(7)
    /\ Won(1)

\* Pieces of player p on the grid.
Pieces(p) == Cardinality({c \in Rows \X Cols : board[c[1]][c[2]] = p})

\* C16: the drop that fills the last empty cell without a run ends the game
\* as a tie at once: a full board is never in progress, a full board without
\* a run is tied, and a game in progress has fewer than WIDTH x HEIGHT
\* pieces, so it ends within WIDTH x HEIGHT accepted drops.
C16_FullBoardEndsGame ==
    /\ NoEmptyCell(board) => (~isPlaying /\ Ended)
    /\ (NoEmptyCell(board) /\ ~FourInLine(board, 1) /\ ~FourInLine(board, 2))
            => Tied
    /\ isPlaying => Pieces(1) + Pieces(2) < WIDTH * HEIGHT

\* The last cell of a 3 x 3 board has just been filled: a tie.
C16_Witness ==
    /\ lastEvent = "placed"
    /\ WIDTH = 3
    /\ HEIGHT = 3
    /\ NoEmptyCell(board)
    /\ Tied

\* C17: at most one start listener is registered, and none while a game is
\* in progress (so no start click can empty the board in mid-game).
C17_StartDisabledWhilePlaying ==
    /\ listeners <= 1
    /\ isPlaying => listeners = 0
    /\ isPlaying => ~ENABLED HandleStartClick

\* A rematch is under way: the listener has been removed a second time.
C17_Witness ==
    /\ lastEvent = "start"
    /\ isPlaying
    /\ listeners = 0
    /\ currPlayer = 2

\* C18: the end of a game leaves exactly one timeout pending; while it is
\* pending no game is in progress, no start listener is registered and no
\* click changes board, turn, playing flag or outcome; when it fires the
\* start listener is registered again; and since it does fire, a finished
\* game is always followed by a state in which start is enabled.
C18_TimeoutReenablesStart ==
    /\ [][/\ (~Ended /\ Ended') => (timers = 0 /\ timers' = 1)
          /\ timers > 0 =>
                /\ timers = 1
                /\ Ended
                /\ ~isPlaying
                /\ listeners = 0
                /\ TimeoutFires \/ UNCHANGED game
          /\ TimeoutFires =>
                (timers' = 0 /\ listeners' = 1 /\ handleStartLive')
         ]_vars
    /\ (Ended /\ timers > 0) ~> (listeners > 0 /\ ENABLED HandleStartClick)
    /\ [](~isPlaying => <>(ENABLED HandleStartClick \/ isPlaying))

\* A click has been ignored while the timeout of a tied game is pending.
C18_Witness ==
    /\ lastEvent = "notPlaying"
    /\ Tied
    /\ timers = 1
    /\ listeners = 0

\* C19: while a game is in progress the board holds four in a line of neither
\* player; in a won state it holds four in a line of the current player, who
\* is the winner, and none of the other player.
C19_RunsOnlyInWonStates ==
    /\ isPlaying => (~FourInLine(board, 1) /\ ~FourInLine(board, 2))
    /\ \A p \in {1, 2} :
        Won(p) =>
            /\ currPlayer = p
            /\ FourInLine(board, p)
            /\ ~FourInLine(board, Other(p))

\* Player 2 has won with a diagonal run.
C19_Witness ==
    /\ Won(2)
    /\ \E y \in Rows : \E x \in Cols :
        \/ win(board, WIDTH, HEIGHT, 2, diagDL(y, x))
        \/ win(board, WIDTH, HEIGHT, 2, diagDR(y, x))

\* C20: the two players' piece counts differ by at most one, and while a
\* game is in progress the current player has no more pieces than the other.
C20_TurnsAlternate ==
    /\ Pieces(1) - Pieces(2) \in {-1, 0, 1}
    /\ isPlaying => Pieces(currPlayer) <= Pieces(Other(currPlayer))

\* A rematch that player 2 began: player 1 is to move with one piece fewer.
C20_Witness ==
    /\ isPlaying
    /\ currPlayer = 1
    /\ Pieces(2) = Pieces(1) + 1
    /\ Pieces(1) >= 2
====
